---------------------------- MODULE Spec2Model ----------------------------
(***************************************************************************)
(* German-English vocabulary trainer (randomwords_w_self_upload.py).       *)
(*                                                                         *)
(* The model covers the record store (the pandas DataFrame df), loading    *)
(* and saving it, the sampling function sample_items, the Show callback    *)
(* show_entries and the three status callbacks.                            *)
(*                                                                         *)
(* The disk is outside the program.  disk is what the file CSV_FILE_PATH   *)
(* names holds: what was read from it or what save_df wrote to it last.    *)
(* What any other file holds when it is opened is an input of open_file.   *)
(*                                                                         *)
(* A DataFrame is a record [none, cols, index, cell]: the set of column    *)
(* names, the row labels in row order, and the cells of each label.  A     *)
(* file holds the columns and the rows in order, without the labels        *)
(* (to_csv / to_excel are called with index=False).                        *)
(*                                                                         *)
(* Text typed into an entry field is a sequence of characters; int() is    *)
(* modelled by PyInt.  What the user typed and which table row is selected *)
(* are inputs of the callback that reads them.                             *)
(*                                                                         *)
(* Of the widgets, the Treeview is kept as the list of row labels it       *)
(* shows; the cell texts it displays and the text box are left out.  An    *)
(* exception that leaves a callback is caught by Tk's event loop: the      *)
(* callback stops where it is and the program goes on (event "exception"). *)
(***************************************************************************)
EXTENDS Integers, Sequences, FiniteSets, TLC

VARIABLES
    df,                        \* global df (line 10)
    CSV_FILE_PATH,             \* global CSV_FILE_PATH (line 9)
    all_categories,            \* global all_categories (line 11)
    category_vars,             \* keys of category_vars, in insertion order (line 97)
    current_selection_indices, \* line 189
    tree,                      \* rows of the Treeview: the df label each row shows
    disk,                      \* what the file named by CSV_FILE_PATH holds
    op,                        \* history: the callback that ran last
    event,                     \* history: the dialog / outcome of that callback
    results,                   \* history: the row labels of the list sample_items
                               \*   returned to the last show_entries on the df
                               \*   currently loaded
    selection_stale,           \* history: df was assigned by load_file after
                               \*   current_selection_indices was filled
    call                       \* history: inputs and phases of the last sample_items call

vars == <<df, CSV_FILE_PATH, all_categories, category_vars,
          current_selection_indices, tree, disk, op, event, results,
          selection_stale, call>>

-----------------------------------------------------------------------------
(* Bounds *)

\* Largest TimesShown a row is driven to.
MaxShown == 1

\* Number of rows of the stores the sampling function is exercised on.
MaxRows == 3

-----------------------------------------------------------------------------
(* Generic helpers *)

Range(s) == {s[i] : i \in DOMAIN s}

Min(a, b) == IF a <= b THEN a ELSE b

RECURSIVE SumSeq(_)
SumSeq(s) == IF s = <<>> THEN 0 ELSE Head(s) + SumSeq(Tail(s))

RECURSIVE Flatten(_)
Flatten(ss) == IF ss = <<>> THEN <<>> ELSE Head(ss) \o Flatten(Tail(ss))

\* First position of s that holds an element of S, 0 when there is none.
FirstIn(s, S) ==
    IF \E i \in DOMAIN s : s[i] \in S
    THEN CHOOSE i \in DOMAIN s : s[i] \in S /\ \A j \in 1..(i - 1) : s[j] \notin S
    ELSE 0

-----------------------------------------------------------------------------
(* Cell values *)

\* pandas' missing value in a text cell, and in the TimesShown column.
NaN == "NaN"
NaNCount == -1

AllColumns == {"Deutsch", "English", "Category", "Status", "TimesShown"}

NaNRow == [Deutsch |-> NaN, English |-> NaN, Category |-> NaN,
           Status |-> NaN, TimesShown |-> NaNCount]

\* The category labels of the vocabulary, in Python's string order.
Alphabet == <<"animals", "food">>

-----------------------------------------------------------------------------
(* int(): optional surrounding blanks, optional sign, one or more digits *)

DigitChars == <<"0", "1", "2", "3", "4", "5", "6", "7", "8", "9">>

IsDigit(c) == \E i \in DOMAIN DigitChars : DigitChars[i] = c

DigitVal(c) == (CHOOSE i \in DOMAIN DigitChars : DigitChars[i] = c) - 1

RECURSIVE Strip(_)
Strip(s) ==
    IF s = <<>> THEN s
    ELSE IF Head(s) = " " THEN Strip(Tail(s))
    ELSE IF s[Len(s)] = " " THEN Strip(SubSeq(s, 1, Len(s) - 1))
    ELSE s

RECURSIVE DigitsValue(_)
DigitsValue(s) ==
    IF s = <<>> THEN 0
    ELSE 10 * DigitsValue(SubSeq(s, 1, Len(s) - 1)) + DigitVal(s[Len(s)])

\* [ok |-> FALSE] stands for ValueError.
PyInt(text) ==
    LET s == Strip(text)
        signed == s # <<>> /\ Head(s) \in {"-", "+"}
        digits == IF signed THEN Tail(s) ELSE s
    IN  IF digits # <<>> /\ \A i \in DOMAIN digits : IsDigit(digits[i])
        THEN [ok |-> TRUE,
              val |-> IF signed /\ Head(s) = "-"
                      THEN 0 - DigitsValue(digits) ELSE DigitsValue(digits)]
        ELSE [ok |-> FALSE, val |-> 0]

-----------------------------------------------------------------------------
(* DataFrames and files *)

None == [none |-> TRUE, cols |-> {}, index |-> <<>>, cell |-> <<>>]

Labels(d) == Range(d.index)

\* len(df)
DfLen(d) == Len(d.index)

\* pd.read_csv / pd.read_excel: the rows get the labels 0 .. n-1.
ReadTable(f) ==
    [none  |-> FALSE,
     cols  |-> f.cols,
     index |-> [i \in 1..Len(f.rows) |-> i - 1],
     cell  |-> [l \in 0..(Len(f.rows) - 1) |-> f.rows[l + 1]]]

\* df.to_csv(path, index=False) / df.to_excel(path, index=False)
WriteTable(d) ==
    [readable |-> TRUE,
     cols     |-> d.cols,
     rows     |-> [i \in 1..Len(d.index) |-> d.cell[d.index[i]]]]

\* df[col] = value, for a column the frame does not have yet
AddColumn(d, col, value) ==
    [d EXCEPT !.cols = @ \cup {col},
              !.cell = [l \in Labels(d) |-> [d.cell[l] EXCEPT ![col] = value]]]

\* df.at[idx, col] = value.  A label or column the frame lacks is added
\* (pandas falls back to loc, which enlarges the frame), its other cells NaN.
SetAt(d, idx, col, value) ==
    LET withRow == IF idx \in Labels(d) THEN d
                   ELSE [d EXCEPT !.index = Append(@, idx),
                                  !.cell = [l \in Labels(d) \cup {idx} |->
                                              IF l = idx THEN NaNRow ELSE d.cell[l]]]
    IN  [withRow EXCEPT !.cols = @ \cup {col},
                        !.cell = [@ EXCEPT ![idx] = [@ EXCEPT ![col] = value]]]

\* Paths are <<stem, extension>>.
EndsWith(filepath, suffixes) == filepath[Len(filepath)] \in suffixes

IsCsv(filepath) == EndsWith(filepath, {".csv"})
IsExcel(filepath) == EndsWith(filepath, {".xlsx", ".xls"})

\* The dialog returns '' when it is cancelled.
NoPath == <<"">>

\* save_df: what the file at path holds after it, held being what it held
save_df(path, d, held) ==
    IF path # NoPath /\ ~d.none /\ (IsCsv(path) \/ IsExcel(path))
    THEN WriteTable(d)
    ELSE held

\* sorted(df["Category"].dropna().unique().tolist())
SortedCategories(d) ==
    SelectSeq(Alphabet, LAMBDA c : \E l \in Labels(d) : d.cell[l].Category = c)

RequiredCols == {"Deutsch", "English", "Category"}

-----------------------------------------------------------------------------
(* What the disk can hold *)

VocabCsv == <<"vocab", ".csv">>
WordsXlsx == <<"words", ".xlsx">>
NotesTxt == <<"notes", ".txt">>

Paths == {VocabCsv, WordsXlsx, NotesTxt}

Statuses == {"normal", "review", "mastered"}

\* The word pairs the files are made of, in file order.
Vocabulary ==
    << [Deutsch |-> "Hund", English |-> "dog", Category |-> "animals"],
       [Deutsch |-> "Brot", English |-> "bread", Category |-> "food"],
       [Deutsch |-> "Katze", English |-> "cat", Category |-> "animals"],
       [Deutsch |-> "Apfel", English |-> "apple", Category |-> "food"],
       [Deutsch |-> "Pferd", English |-> "horse", Category |-> "animals"] >>

Entry(i, status, shown) ==
    [Deutsch |-> Vocabulary[i].Deutsch, English |-> Vocabulary[i].English,
     Category |-> Vocabulary[i].Category, Status |-> status, TimesShown |-> shown]

\* A file that cannot be read or parsed.
Unreadable == [readable |-> FALSE, cols |-> {}, rows |-> <<>>]

\* A vocabulary file without the optional columns.
FreshTable(n) ==
    [readable |-> TRUE, cols |-> RequiredCols,
     rows |-> [i \in 1..n |-> Entry(i, NaN, NaNCount)]]

\* A vocabulary file with all five columns, its words flagged for review.
ReviewTable(n) ==
    [readable |-> TRUE, cols |-> AllColumns,
     rows |-> [i \in 1..n |-> Entry(i, "review", 0)]]

\* A plain list of word pairs: no Category column.
PairsTable(n) ==
    [readable |-> TRUE, cols |-> {"Deutsch", "English"},
     rows |-> [i \in 1..n |-> [Entry(i, NaN, NaNCount) EXCEPT !.Category = NaN]]]

\* What a file that is not the current one can hold when it is opened.
DiskContents ==
    {Unreadable, PairsTable(1), FreshTable(2), FreshTable(1), ReviewTable(1)}

\* What the file at filepath holds when it is opened.
Holds(filepath) == IF filepath = CSV_FILE_PATH THEN {disk} ELSE DiskContents

-----------------------------------------------------------------------------
(* load_file and open_file *)

\* The frame load_file ends with: the optional columns added when missing.
WithOptionalColumns(d) ==
    LET d1 == IF "TimesShown" \notin d.cols THEN AddColumn(d, "TimesShown", 0) ELSE d
    IN  IF "Status" \notin d1.cols THEN AddColumn(d1, "Status", "normal") ELSE d1

\* content is what the file at filepath holds.
load_file(filepath, content) ==
    IF ~(IsCsv(filepath) \/ IsExcel(filepath))
    THEN /\ event' = "error_file_type"
         /\ UNCHANGED <<df, CSV_FILE_PATH, all_categories, category_vars, disk,
                        results, selection_stale>>
    ELSE IF ~content.readable
    THEN /\ event' = "error_load_failed"
         /\ UNCHANGED <<df, CSV_FILE_PATH, all_categories, category_vars, disk,
                        results, selection_stale>>
    ELSE LET loaded == ReadTable(content) IN
         IF ~(RequiredCols \subseteq loaded.cols)
         THEN \* lines 21-28 have assigned the globals when line 37 returns
              /\ df' = loaded
              /\ CSV_FILE_PATH' = filepath
              /\ disk' = content
              /\ event' = "error_columns"
              /\ results' = <<>>
              /\ selection_stale' = (current_selection_indices # <<>>)
              /\ UNCHANGED <<all_categories, category_vars>>
         ELSE /\ df' = WithOptionalColumns(loaded)
              /\ CSV_FILE_PATH' = filepath
              /\ all_categories' = SortedCategories(df')
              /\ disk' = save_df(filepath, df', content)
              /\ event' = "info_loaded"
              \* open_file: setup_category_inputs()
              /\ category_vars' = all_categories'
              /\ results' = <<>>
              /\ selection_stale' = (current_selection_indices # <<>>)

open_file(filepath, content) ==
    /\ op' = "open_file"
    /\ IF filepath = NoPath
       THEN /\ event' = "cancelled"
            /\ UNCHANGED <<df, CSV_FILE_PATH, all_categories, category_vars, disk,
                        results, selection_stale>>
       ELSE load_file(filepath, content)
    /\ UNCHANGED <<current_selection_indices, tree, call>>

-----------------------------------------------------------------------------
(* sample_items *)

\* pool.sample(n): n rows of the pool, in any order
Sample(pool, n) ==
    LET RECURSIVE Draws(_, _)
        Draws(S, k) ==
            IF k = 0 THEN {<<>>}
            ELSE UNION {{<<x>> \o t : t \in Draws(S \ {x}, k - 1)} : x \in S}
    IN  Draws(pool, n)

\* the separator of line 185, its dash in ASCII
Separator == "  -  "

\* str() of a cell inside an f-string
Str(v) == IF v = NaN THEN "nan" ELSE v

format_display_text(row, mode) ==
    IF mode = "Deutsch" THEN row.Deutsch
    ELSE IF mode = "English" THEN row.English
    ELSE Str(row.Deutsch) \o Separator \o Str(row.English)

\* row[...] raises KeyError for a column the frame does not have
FormatRaises(d, mode) ==
    \/ mode # "English" /\ "Deutsch" \notin d.cols
    \/ mode # "Deutsch" /\ "English" \notin d.cols

\* selected.append((idx, text)) for each row of a sample
Items(d, sample, mode) ==
    [i \in DOMAIN sample |->
        [idx |-> sample[i], text |-> format_display_text(d.cell[sample[i]], mode)]]

\* base_pool = df  (the status filter left out)
EligiblePoolUnfiltered(d) == Labels(d)

\* base_pool = df[df["Status"] != "mastered"]
EligiblePool(d) == {l \in Labels(d) : d.cell[l].Status # "mastered"}

\* review_pool = base_pool[base_pool["Status"] == "review"]
ReviewPool(d, base_pool) == {l \in base_pool : d.cell[l].Status = "review"}

\* pool_cat = base_pool[base_pool["Category"] == cat]
CategoryPool(d, base_pool, cat) == {l \in base_pool : d.cell[l].Category = cat}

\* base_pool kept as it is  (the drop left out)
DropNothing(base_pool, sample) == base_pool

\* base_pool.drop(index=sample.index)
Drop(base_pool, sample) == base_pool \ Range(sample)

\* n = min(n, len(pool) - 1)  (off by one)
ClampShort(n, pool) == Min(n, Cardinality(pool) - 1)

\* n = min(n, len(pool))
Clamp(n, pool) == Min(n, Cardinality(pool))

\* total_cat_requested == 0 and review_count == 0
FallbackTest(category_counts, review_count) ==
    /\ SumSeq([i \in DOMAIN category_counts |-> category_counts[i].needed]) = 0
    /\ review_count = 0

\* The loop over category_counts.items() from entry k on: the possible lists
\* of per-category samples (an empty sample for a category that is skipped).
RECURSIVE CategoryPhase(_, _, _, _)
CategoryPhase(d, base_pool, category_counts, k) ==
    IF k > Len(category_counts) THEN {<<>>}
    ELSE LET needed == category_counts[k].needed
             pool_cat == CategoryPool(d, base_pool, category_counts[k].cat)
         IN  IF needed <= 0 \/ pool_cat = {}
             THEN {<<<<>>>> \o rest :
                     rest \in CategoryPhase(d, base_pool, category_counts, k + 1)}
             ELSE UNION {{<<sample_rows>> \o rest :
                            rest \in CategoryPhase(d, Drop(base_pool, sample_rows),
                                                   category_counts, k + 1)} :
                         sample_rows \in Sample(pool_cat, Clamp(needed, pool_cat))}

\* the category picks put in front of the review picks
SelectedCategoriesFirst(review_sample, category_samples) ==
    Flatten(category_samples) \o review_sample

\* selected, in the order the phases append to it
Selected(review_sample, category_samples) ==
    review_sample \o Flatten(category_samples)

NoOutcome ==
    [kind |-> "none", fallback |-> FALSE, review |-> <<>>, groups |-> <<>>,
     selected |-> <<>>]

Outcome(kind, fallback, review, groups, items) ==
    [kind |-> kind, fallback |-> fallback, review |-> review, groups |-> groups,
     selected |-> items]

\* The outcomes of sample_items(category_counts, review_count, display_mode) on
\* the frame d, with num_entries holding the text num_text:
\*   kind "ok"        a list is returned (selected; possibly empty),
\*   kind "no_data"   the "No data loaded" error, [] returned,
\*   kind "bad_number" the "Please enter a valid number." error, [] returned,
\*   kind "raise"     an exception leaves the function.
\* review and groups are the samples of the review phase and of each category,
\* fallback tells whether the fallback branch (lines 142-155) ran.
sample_items(d, category_counts, review_count, display_mode, num_text) ==
    IF d.none \/ DfLen(d) = 0
    THEN {Outcome("no_data", FALSE, <<>>, <<>>, <<>>)}
    ELSE IF "Status" \notin d.cols
    THEN {Outcome("raise", FALSE, <<>>, <<>>, <<>>)}
    ELSE
    LET base_pool == EligiblePool(d)
        review_pool == ReviewPool(d, base_pool)
        reviewing == review_count > 0 /\ review_pool # {}
        review_count2 == IF reviewing THEN Clamp(review_count, review_pool)
                         ELSE review_count
        review_samples == IF reviewing THEN Sample(review_pool, review_count2)
                          ELSE {<<>>}
        fallback == FallbackTest(category_counts, review_count2)
        n == PyInt(num_text)
        AfterReview(review_sample) ==
            LET pool == Drop(base_pool, review_sample) IN
            IF review_sample # <<>> /\ FormatRaises(d, display_mode)
            THEN {Outcome("raise", FALSE, review_sample, <<>>, <<>>)}
            ELSE IF fallback
            THEN IF ~n.ok
                 THEN {Outcome("bad_number", TRUE, review_sample, <<>>, <<>>)}
                 ELSE IF Clamp(n.val, pool) < 0
                 THEN \* sample(n) with n < 0 raises ValueError
                      {Outcome("raise", TRUE, review_sample, <<>>, <<>>)}
                 ELSE {IF sample_rows # <<>> /\ FormatRaises(d, display_mode)
                       THEN Outcome("raise", TRUE, review_sample, <<>>, <<>>)
                       ELSE Outcome("ok", TRUE, review_sample, <<sample_rows>>,
                                    Items(d, Selected(review_sample, <<sample_rows>>),
                                          display_mode)) :
                       sample_rows \in Sample(pool, Clamp(n.val, pool))}
            ELSE IF /\ "Category" \notin d.cols
                    /\ \E k \in DOMAIN category_counts : category_counts[k].needed > 0
            THEN {Outcome("raise", FALSE, review_sample, <<>>, <<>>)}
            ELSE {IF Flatten(groups) # <<>> /\ FormatRaises(d, display_mode)
                  THEN Outcome("raise", FALSE, review_sample, <<>>, <<>>)
                  ELSE Outcome("ok", FALSE, review_sample, groups,
                               Items(d, Selected(review_sample, groups), display_mode)) :
                  groups \in CategoryPhase(d, pool, category_counts, 1)}
    IN  UNION {AfterReview(review_sample) : review_sample \in review_samples}

-----------------------------------------------------------------------------
(* What the user can type and select *)

QuotaTexts == {<<"0">>, <<"1">>, <<"2">>, <<"-", "1">>, <<"x">>}
ReviewTexts == {<<"0">>, <<"1">>, <<"2">>, <<"-", "1">>, <<>>}
NumTexts == {<<"0">>, <<"2">>, <<"5">>, <<"-", "1">>, <<"a", "b">>}
Modes == {"Deutsch", "English", "Both"}

\* The texts typed in the course of a session
SessionQuotaTexts == {<<"0">>, <<"1">>}
SessionReviewTexts == {<<"0">>, <<"1">>}
SessionNumTexts == {<<"5">>, <<"a", "b">>}

\* int(sv.get()), with ValueError giving 1  (the default of the field)
IntOrOne(text) == IF PyInt(text).ok THEN PyInt(text).val ELSE 1

\* int(sv.get()), with ValueError giving 0 (lines 205-208 and 212-215)
IntOrZero(text) == IF PyInt(text).ok THEN PyInt(text).val ELSE 0

\* cat_counts: one entry per key of category_vars, in the dict's order
CatCounts(keys, quota_texts) ==
    [k \in DOMAIN keys |-> [cat |-> keys[k], needed |-> IntOrZero(quota_texts[k])]]

Idxs(items) == [i \in DOMAIN items |-> items[i].idx]

-----------------------------------------------------------------------------
(* show_entries *)

\* df.at[idx, "TimesShown"] = int(df.at[idx, "TimesShown"]) + 1 for each idx
CountShown(d, idxs) ==
    [d EXCEPT !.cell = [l \in Labels(d) |->
                          IF l \in Range(idxs)
                          THEN [d.cell[l] EXCEPT !.TimesShown = @ + 1]
                          ELSE d.cell[l]]]

\* tree.insert(... row["Deutsch"], ..., row["TimesShown"]) raises KeyError for
\* a label or a column the frame does not have
RowRaises(d, idx) == idx \notin Labels(d) \/ ~(AllColumns \subseteq d.cols)

\* What sample_items can return to show_entries (line 217)
Sampled(quota_texts, review_text, num_text, mode) ==
    IF df.none THEN {NoOutcome}
    ELSE sample_items(df, CatCounts(category_vars, quota_texts),
                      IntOrZero(review_text), mode, num_text)

\* show_entries, o being what sample_items returns to it
show_entries(quota_texts, review_text, num_text, mode, o) ==
    /\ op' = "show_entries"
    /\ UNCHANGED <<CSV_FILE_PATH, all_categories, category_vars>>
    /\ IF df.none
       THEN /\ event' = "error_no_file"
            /\ UNCHANGED <<df, disk, current_selection_indices, tree, results,
                           selection_stale>>
       ELSE LET idxs == Idxs(o.selected)
                \* the first row whose TimesShown is NaN: int() raises ValueError
                bad == FirstIn(idxs, {l \in Labels(df) :
                                        df.cell[l].TimesShown = NaNCount})
                counted == IF bad = 0 THEN idxs ELSE SubSeq(idxs, 1, bad - 1)
                \* the first row the display loop fails on
                fail == FirstIn(o.selected,
                                {it \in Range(o.selected) :
                                    it.text = NaN \/ RowRaises(df, it.idx)})
            IN
            /\ \A i \in DOMAIN idxs : df.cell[idxs[i]].TimesShown < MaxShown
            /\ results' = idxs
            /\ IF o.kind = "raise"
               THEN /\ event' = "exception"
                    /\ UNCHANGED <<df, disk, current_selection_indices, tree,
                                   selection_stale>>
               ELSE IF o.selected = <<>>
               THEN /\ event' = CASE o.kind = "no_data" -> "error_no_data"
                                  [] o.kind = "bad_number" -> "error_number"
                                  [] OTHER -> "nothing"
                    /\ UNCHANGED <<df, disk, current_selection_indices, tree,
                                   selection_stale>>
               ELSE IF "TimesShown" \notin df.cols
               THEN /\ event' = "exception"
                    /\ UNCHANGED <<df, disk, current_selection_indices, tree,
                                   selection_stale>>
               ELSE IF bad # 0
               THEN /\ df' = CountShown(df, counted)
                    /\ event' = "exception"
                    /\ UNCHANGED <<disk, current_selection_indices, tree,
                                   selection_stale>>
               ELSE /\ df' = CountShown(df, idxs)
                    /\ disk' = save_df(CSV_FILE_PATH, df', disk)
                    /\ selection_stale' = FALSE
                    /\ IF fail = 0
                       THEN /\ current_selection_indices' = idxs
                            /\ tree' = idxs
                            /\ event' = "shown"
                       ELSE /\ current_selection_indices' = SubSeq(idxs, 1, fail)
                            /\ tree' = SubSeq(idxs, 1, fail - 1)
                            /\ event' = "exception"

-----------------------------------------------------------------------------
(* mark_review, mark_mastered, clear_status *)

\* get_selected_df_index_from_tree, then the three lines the callbacks share.
\* selected is the position of the selected tree row, 0 when none is selected.
SetStatus(name, status, selected) ==
    /\ op' = name
    /\ UNCHANGED <<CSV_FILE_PATH, all_categories, category_vars,
                   current_selection_indices, results, selection_stale, call>>
    /\ IF selected = 0
       THEN /\ event' = "warning_no_selection"
            /\ UNCHANGED <<df, disk, tree>>
       ELSE IF selected - 1 >= Len(current_selection_indices)
       THEN /\ event' = "nothing"
            /\ UNCHANGED <<df, disk, tree>>
       ELSE IF df.none
       THEN /\ event' = "exception"
            /\ UNCHANGED <<df, disk, tree>>
       ELSE LET idx == current_selection_indices[selected]
                \* refresh_tree_rows stops at the first row that raises
                fail == FirstIn(current_selection_indices,
                                {l \in Range(current_selection_indices) :
                                    RowRaises(df', l)})
            IN  /\ df' = SetAt(df, idx, "Status", status)
                /\ disk' = save_df(CSV_FILE_PATH, df', disk)
                /\ IF fail = 0
                   THEN /\ tree' = current_selection_indices
                        /\ event' = "marked"
                   ELSE /\ tree' = SubSeq(current_selection_indices, 1, fail - 1)
                        /\ event' = "exception"

mark_review(selected) == SetStatus("mark_review", "review", selected)

mark_mastered(selected) == SetStatus("mark_mastered", "mastered", selected)

clear_status(selected) == SetStatus("clear_status", "normal", selected)

-----------------------------------------------------------------------------
(* The program: the window is up, nothing is loaded *)

NoCall == [category_counts |-> <<>>, quota_texts |-> <<>>, review_text |-> <<>>,
           review_count |-> 0, num_text |-> <<>>, mode |-> "Deutsch",
           outcome |-> NoOutcome]

Init ==
    /\ df = None
    /\ CSV_FILE_PATH = NoPath
    /\ all_categories = <<>>
    /\ category_vars = <<>>
    /\ current_selection_indices = <<>>
    /\ tree = <<>>
    /\ disk = Unreadable
    /\ op = "start"
    /\ event = "none"
    /\ results = <<>>
    /\ selection_stale = FALSE
    /\ call = NoCall

OpenFile ==
    \E filepath \in Paths \cup {NoPath} :
        \E content \in Holds(filepath) : open_file(filepath, content)

ShowEntries ==
    \E quota_texts \in [DOMAIN category_vars -> SessionQuotaTexts],
       review_text \in SessionReviewTexts, num_text \in SessionNumTexts,
       mode \in Modes :
        \E o \in Sampled(quota_texts, review_text, num_text, mode) :
            /\ show_entries(quota_texts, review_text, num_text, mode, o)
            /\ UNCHANGED call

MarkReview == \E selected \in 0..Len(tree) : mark_review(selected)

MarkMastered == \E selected \in 0..Len(tree) : mark_mastered(selected)

ClearStatus == \E selected \in 0..Len(tree) : clear_status(selected)

Next == OpenFile \/ ShowEntries \/ MarkReview \/ MarkMastered \/ ClearStatus

Spec == Init /\ [][Next]_vars

-----------------------------------------------------------------------------
(* One Show on a loaded store, for every store of MaxRows words and every   *)
(* text in the entry fields; call records what was typed and what           *)
(* sample_items did with it.                                                *)

Stores ==
    {ReadTable([readable |-> TRUE, cols |-> AllColumns,
                rows |-> [i \in 1..MaxRows |-> Entry(i, status[i], 0)]]) :
        status \in [1..MaxRows -> Statuses]}

\* The state a successful open_file of such a file leaves.
SampleInit ==
    /\ df \in Stores
    /\ CSV_FILE_PATH = VocabCsv
    /\ all_categories = SortedCategories(df)
    /\ category_vars = all_categories
    /\ current_selection_indices = <<>>
    /\ tree = <<>>
    /\ disk = WriteTable(df)
    /\ op = "open_file"
    /\ event = "info_loaded"
    /\ results = <<>>
    /\ selection_stale = FALSE
    /\ call = NoCall

ShowOnce ==
    /\ op = "open_file"
    /\ \E quota_texts \in [DOMAIN category_vars -> QuotaTexts],
          review_text \in ReviewTexts, num_text \in NumTexts, mode \in Modes :
         \E o \in Sampled(quota_texts, review_text, num_text, mode) :
            /\ show_entries(quota_texts, review_text, num_text, mode, o)
            /\ call' = [category_counts |-> CatCounts(category_vars, quota_texts),
                        quota_texts |-> quota_texts,
                        review_text |-> review_text,
                        review_count |-> IntOrZero(review_text),
                        num_text |-> num_text,
                        mode |-> mode,
                        outcome |-> o]

SampleNext == ShowOnce

SampleSpec == SampleInit /\ [][SampleNext]_vars

-----------------------------------------------------------------------------
(* Properties of a session (Spec) *)

MarkOps == {"mark_review", "mark_mastered", "clear_status"}

\* A store as a successful load leaves it: all five columns.
Loaded(d) == ~d.none /\ AllColumns \subseteq d.cols

\* C1: no Show, after any sequence of loads, Shows and status changes, is
\* handed an entry by sample_items whose status is "mastered" when it is called.
C1_MasteredNeverSampled ==
    [][op' = "show_entries" =>
          \A i \in DOMAIN results' : df.cell[results'[i]].Status # "mastered"]_vars

\* A Show that displayed entries while another entry of the store was mastered.
C1_Witness ==
    /\ op = "show_entries" /\ event = "shown" /\ results # <<>>
    /\ \E l \in Labels(df) : df.cell[l].Status = "mastered"

\* C5: a Show whose sample is not empty adds exactly 1 to the TimesShown of
\* each selected entry and changes nothing else in the store.
C5_UsageCounting ==
    [][(op' = "show_entries" /\ results' # <<>> /\ Loaded(df)) =>
          /\ df'.index = df.index
          /\ df'.cols = df.cols
          /\ \A l \in Labels(df) :
                df'.cell[l] = IF l \in Range(results')
                              THEN [df.cell[l] EXCEPT !.TimesShown = @ + 1]
                              ELSE df.cell[l]]_vars

\* C6: a status callback changes the status of one entry, which is in the
\* last selection sampled from the store that is loaded now; with no row
\* selected it leaves the store as it is.
C6_MarkHitsLastSelection ==
    [][(op' \in MarkOps /\ Loaded(df)) =>
          IF event' \in {"warning_no_selection", "nothing"}
          THEN df' = df /\ disk' = disk
          ELSE /\ ~selection_stale
               /\ \E idx \in Range(current_selection_indices) \cap Labels(df) :
                    \E status \in Statuses :
                        df' = [df EXCEPT !.cell[idx].Status = status]]_vars

\* C9: a load that fails leaves the store, its path and the category list
\* as they were.
C9_FailedLoadKeepsStore ==
    [][(/\ op' = "open_file"
        /\ event' \in {"error_file_type", "error_columns", "error_load_failed"}
        /\ Loaded(df)) =>
          /\ df' = df
          /\ CSV_FILE_PATH' = CSV_FILE_PATH
          /\ all_categories' = all_categories]_vars

\* C10: between two loads, no Show and no status callback adds or removes an
\* entry or changes an entry's texts or category.
C10_MembershipStable ==
    [][(op' \in MarkOps \cup {"show_entries"} /\ Loaded(df)) =>
          /\ df'.index = df.index
          /\ \A l \in Labels(df) :
                /\ df'.cell[l].Deutsch = df.cell[l].Deutsch
                /\ df'.cell[l].English = df.cell[l].English
                /\ df'.cell[l].Category = df.cell[l].Category]_vars

-----------------------------------------------------------------------------
(* Properties of one sample_items call (SampleSpec).  Show changes only     *)
(* TimesShown, so status and category of the rows are those of the call.   *)

Called == op = "show_entries"

NotMastered == {l \in Labels(df) : df.cell[l].Status # "mastered"}

InReview == {l \in NotMastered : df.cell[l].Status = "review"}

\* The rows the review phase and the categories before the k-th have taken.
PickedBefore(k) ==
    Range(call.outcome.review)
    \cup UNION {Range(call.outcome.groups[j]) : j \in 1..(k - 1)}

GroupSizes == [k \in DOMAIN call.outcome.groups |-> Len(call.outcome.groups[k])]

NonNumeric(text) == text \in {<<"x">>, <<>>, <<"a", "b">>}

\* C2: the labels of one returned list are pairwise distinct.
C2_DistinctIds ==
    Called =>
        \A i, j \in DOMAIN call.outcome.selected :
            i # j => call.outcome.selected[i].idx # call.outcome.selected[j].idx

\* A call whose review phase took a row of a category that was sampled next.
C2_Witness ==
    /\ Called /\ ~call.outcome.fallback /\ call.outcome.review # <<>>
    /\ \E k \in DOMAIN call.outcome.groups :
          /\ call.outcome.groups[k] # <<>>
          /\ \E l \in Range(call.outcome.review) :
                df.cell[l].Category = call.category_counts[k].cat

\* C3: the fallback branch runs exactly when every category quota and the
\* review quota are zero, and then no review or category sampling happens.
C3_FallbackExclusive ==
    Called =>
        /\ call.outcome.fallback <=>
              /\ \A k \in DOMAIN call.category_counts :
                    call.category_counts[k].needed = 0
              /\ call.review_count = 0
        /\ call.outcome.fallback => call.outcome.review = <<>>

\* C4: each phase returns min(quota, size of its pool) rows, for quotas and
\* counts >= 0, and a quota or count above the pool size raises nothing.
C4_Clamping ==
    Called =>
        LET o == call.outcome
            cc == call.category_counts
            n == PyInt(call.num_text)
        IN  /\ call.review_count >= 0 =>
                  Len(o.review) = Min(call.review_count, Cardinality(InReview))
            /\ (o.kind = "ok" /\ ~o.fallback) =>
                  \A k \in DOMAIN cc :
                      cc[k].needed > 0 =>
                          Len(o.groups[k]) =
                              Min(cc[k].needed,
                                  Cardinality({l \in NotMastered \ PickedBefore(k) :
                                                 df.cell[l].Category = cc[k].cat}))
            /\ (o.fallback /\ n.ok /\ n.val >= 0) =>
                  /\ o.kind = "ok"
                  /\ Len(o.groups) = 1
                  /\ Len(o.groups[1]) = Min(n.val, Cardinality(NotMastered))
            /\ o.kind = "ok" => Len(o.selected) = Len(o.review) + SumSeq(GroupSizes)
            /\ o.kind = "raise" => (o.fallback /\ n.ok /\ n.val < 0)

\* A call whose review quota and one category quota were both cut down.
C4_Witness ==
    /\ Called /\ ~call.outcome.fallback
    /\ call.outcome.review # <<>>
    /\ call.review_count > Len(call.outcome.review)
    /\ \E k \in DOMAIN call.outcome.groups :
          /\ call.outcome.groups[k] # <<>>
          /\ call.category_counts[k].needed > Len(call.outcome.groups[k])

\* The phase a returned row was taken in: 0 for review, k for the k-th category.
PhaseOf(l) ==
    IF l \in Range(call.outcome.review) THEN 0
    ELSE CHOOSE k \in DOMAIN call.outcome.groups : l \in Range(call.outcome.groups[k])

\* C7: without fallback the returned list holds the review picks first, then
\* the picks of each category in the order of category_counts.
C7_Ordering ==
    (Called /\ call.outcome.kind = "ok" /\ ~call.outcome.fallback) =>
        LET o == call.outcome
            sel == Idxs(call.outcome.selected)
        IN  /\ Len(sel) = Len(o.review) + SumSeq(GroupSizes)
            /\ \A i \in DOMAIN sel :
                  sel[i] \in Range(o.review) \cup UNION {Range(o.groups[k]) :
                                                          k \in DOMAIN o.groups}
            /\ \A i, j \in DOMAIN sel : i < j => PhaseOf(sel[i]) <= PhaseOf(sel[j])
            /\ \A l \in Range(o.review) : df.cell[l].Status = "review"
            /\ \A k \in DOMAIN o.groups : \A l \in Range(o.groups[k]) :
                  df.cell[l].Category = call.category_counts[k].cat

\* A call with review picks and picks of two categories.
C7_Witness ==
    /\ Called /\ call.outcome.kind = "ok" /\ ~call.outcome.fallback
    /\ call.outcome.review # <<>>
    /\ Len(call.outcome.groups) >= 2
    /\ call.outcome.groups[1] # <<>>
    /\ call.outcome.groups[2] # <<>>

\* C8 as stated: with a non-numeric text in a quota field, the review field
\* or the fallback field (and no negative number typed) the call completes
\* and reports no error.
C8_MalformedNeverAborts ==
    (/\ Called
     /\ \/ \E k \in DOMAIN call.quota_texts : NonNumeric(call.quota_texts[k])
        \/ NonNumeric(call.review_text)
        \/ NonNumeric(call.num_text)
     /\ \A k \in DOMAIN call.category_counts : call.category_counts[k].needed >= 0
     /\ call.review_count >= 0
     /\ PyInt(call.num_text).ok => PyInt(call.num_text).val >= 0) =>
        /\ call.outcome.kind = "ok"
        /\ event \notin {"error_number", "exception"}

\* C8 as amended: a non-numeric category or review quota counts as 0; a
\* non-numeric fallback count is not read when the fallback branch does not
\* run, and when it runs the call reports "Please enter a valid number.",
\* returns the empty list and changes nothing in the store.
C8_MalformedQuotasAreZero ==
    Called =>
        /\ \A k \in DOMAIN call.quota_texts :
              NonNumeric(call.quota_texts[k]) => call.category_counts[k].needed = 0
        /\ NonNumeric(call.review_text) =>
              call.review_count = 0 /\ call.outcome.review = <<>>
        /\ (NonNumeric(call.num_text) /\ ~call.outcome.fallback) =>
              call.outcome.kind = "ok"
        /\ (NonNumeric(call.num_text) /\ call.outcome.fallback) =>
              /\ call.outcome.kind = "bad_number"
              /\ call.outcome.selected = <<>>
              /\ event = "error_number"
              /\ \A l \in Labels(df) : df.cell[l].TimesShown = 0
              /\ current_selection_indices = <<>>

\* A call with a non-numeric quota and a non-numeric fallback count that
\* returned entries of the other category.
C8_Witness ==
    /\ Called /\ call.outcome.kind = "ok" /\ ~call.outcome.fallback
    /\ NonNumeric(call.num_text)
    /\ call.outcome.selected # <<>>
    /\ \E k \in DOMAIN call.quota_texts :
          NonNumeric(call.quota_texts[k]) /\ call.outcome.groups[k] = <<>>

=============================================================================
